---- MODULE Spec2Model ----
(***************************************************************************)
(* StreetGridOS edge-node firmware: the relay inventory and its policy     *)
(* operations, the node state machine, command dispatch and the event      *)
(* loop of EdgeNode::run (src/firmware/src/node.rs).                       *)
(***************************************************************************)
EXTENDS Integers, Sequences, FiniteSets, TLC

\* ------------------------------------------------------------------ bounds
MaxRelays == 2
\* elapsed ticks an interval holds for the loop, and messages the link holds
MaxBacklog == 2
MaxInbox == 2

\* ------------------------------------------------------- program constants
\* types.rs: enum Priority, ordered by discriminant (derive PartialOrd, Ord)
Critical == 0
High == 1
Medium == 2
Low == 3
Priorities == {Critical, High, Medium, Low}

\* types.rs: enum RelayType
Source == "Source"
Load == "Load"
Grid == "Grid"
RelayTypes == {Source, Load, Grid}

\* types.rs: enum NodeState
Normal == "Normal"
AlertSent == "AlertSent"
Islanded == "Islanded"
BlackStart == "BlackStart"
NodeStates == {Normal, AlertSent, Islanded, BlackStart}

\* types.rs: enum MeshType
AdHoc == "AdHoc"
GovernmentSanctioned == "GovernmentSanctioned"
MeshTypes == {AdHoc, GovernmentSanctioned}

\* node.rs: const UNDERVOLTAGE_THRESHOLD (volts)
UNDERVOLTAGE_THRESHOLD == 110

\* ------------------------------------------------------------ input domains
\* this node's id and the ids a command may be addressed to
SelfId == "node_1"
NodeIds == {"node_1", "node_2"}

\* reference voltages a configuration may carry: below and above the threshold
VoltageRefs == {105, 120}

\* wire values of ActivateRelayByIndex.relay_index (the last one is out of range
\* for every inventory) and of ActivateRelayByPriority.priority
WireIndexes == 0 .. MaxRelays
WirePriorities == {0, 1, 2, 3, 4}

\* a relay of the inventory; id is the relay's unique string id (here its
\* construction position), name and amperage are informational and not modelled
RelayKinds == [relay_type : RelayTypes, priority : Priorities, is_closed : BOOLEAN]

MkRelay(i, k) ==
    [id |-> i, relay_type |-> k.relay_type, priority |-> k.priority, is_closed |-> k.is_closed]

Inventories ==
    UNION {{[i \in 1 .. n |-> MkRelay(i, ks[i])] : ks \in [1 .. n -> RelayKinds]} : n \in 0 .. MaxRelays}

\* comms.rs: enum IncomingCommand and the proto messages it wraps
CommandsTo(ids, indexes, codes) ==
    [kind : {"LoadShed"}, target_node_id : ids, shed_load : BOOLEAN]
        \cup [kind : {"EnterIsland"}, target_node_id : ids]
        \cup [kind : {"EnterBlackStart"}, target_node_id : ids]
        \cup [kind : {"ActivateRelayByIndex"}, target_node_id : ids, relay_index : indexes]
        \cup [kind : {"ActivateRelayByPriority"}, target_node_id : ids, priority : codes]

\* the commands the link may deliver: every command addressed to this node, and
\* every variant addressed to another node
Commands ==
    CommandsTo({SelfId}, WireIndexes, WirePriorities)
        \cup CommandsTo(NodeIds \ {SelfId}, {0}, {0})

NoCmd == [kind |-> "None"]

\* ------------------------------------------------------------------- state
VARIABLES
    relays,        \* EdgeNode.relays: Vec<Relay>
    state,         \* EdgeNode.state
    mesh_type,     \* EdgeNode.mesh_type
    voltage_ref,   \* EdgeNode.voltage_ref
    last_voltage,  \* EdgeNode.last_voltage
    has_client,    \* EdgeNode.client is Some
    has_sensor,    \* EdgeNode.power_sensor is Some
    relay_driver,  \* EdgeNode.relay_driver: "None", or the implementation behind the trait
    relay_pins,    \* EdgeNode.relay_pins: relay id -> pin, a partial map
    pin_state,     \* the driver's last accepted value per pin ("unset" before any)
    pc,            \* where the node's owner is: "start", "loop", "panicked", or "test"
    last,          \* the handler or operation that ran last, with its inputs
    pre,           \* relays and state as they were when that handler began
    pushed,        \* the set_physical_relay invocations that handler made, in order
    hw_calls,      \* the set_relay calls that reached the driver, in order, with results
    sent,          \* the orchestrator messages that handler sent, in order, with results
    trace,         \* the steps that handler took on the relays, in program order
    running,       \* the branch of the select! whose body is executing, or "none"
    due,           \* per interval, the ticks that have elapsed and not been taken
    inbox          \* the messages the link holds for receive(), oldest first

vars ==
    <<relays, state, mesh_type, voltage_ref, last_voltage, has_client, has_sensor,
      relay_driver, relay_pins, pin_state, pc, last, pre, pushed,
      hw_calls, sent, trace, running, due, inbox>>

config == <<mesh_type, voltage_ref, has_client, has_sensor, relay_driver, relay_pins>>

\* the three intervals of run(): adc_interval, heartbeat_interval, message_poll_interval
Sources == {"sensing", "heartbeat", "poll"}

\* ------------------------------------------------------ the policy engine
\* the ids of a list of relays, in order (.map(|r| r.id.clone()).collect())
Ids(rs) == [i \in DOMAIN rs |-> rs[i].id]

\* one set_physical_relay(relay_id, closed) invocation
Push(id, closed) == [relay_id |-> id, closed |-> closed]
Pushes(ids, closed) == [i \in DOMAIN ids |-> Push(ids[i], closed)]

\* what an operation leaves behind: the inventory, the node state, the
\* set_physical_relay invocations it made (in order), and whether it panicked
Outcome(rs, st, pushes) ==
    [relays |-> rs, state |-> st, pushes |-> pushes, panic |-> FALSE, trace |-> <<>>]

\* the steps of an operation on the relays, in program order: a relay id
\* collected by the filter ("select"), an assignment to is_closed ("mutate"),
\* a set_physical_relay invocation ("push")
Ev(kind, op, id) == [ev |-> kind, op |-> op, relay_id |-> id]
Evs(kind, op, ids) == [i \in DOMAIN ids |-> Ev(kind, op, ids[i])]

\* the three passes of an operation: collect the ids, loop over the inventory
\* assigning is_closed, loop over the collected ids calling set_physical_relay
Passes(op, collected, assigned) ==
    Evs("select", op, collected) \o Evs("mutate", op, assigned) \o Evs("push", op, collected)

\* an outcome with the steps that produced it
Traced(out, steps) == [out EXCEPT !.trace = steps]

\* shed_load with the threshold tier itself spared (> for >=)
shed_load_strict(rs, st, priority_threshold) ==
    LET hit(r) == r.relay_type = Load /\ r.priority > priority_threshold /\ r.is_closed
    IN  Outcome([i \in DOMAIN rs |-> IF hit(rs[i]) THEN [rs[i] EXCEPT !.is_closed = FALSE] ELSE rs[i]],
                st, Pushes(Ids(SelectSeq(rs, hit)), FALSE))

\* shed_load with the relay type left out of the filter
shed_load_any_type(rs, st, priority_threshold) ==
    LET hit(r) == r.priority >= priority_threshold /\ r.is_closed
    IN  Outcome([i \in DOMAIN rs |-> IF hit(rs[i]) THEN [rs[i] EXCEPT !.is_closed = FALSE] ELSE rs[i]],
                st, Pushes(Ids(SelectSeq(rs, hit)), FALSE))

\* shed_load that drives every load at or below the threshold, open or closed
shed_load_repush(rs, st, priority_threshold) ==
    LET hit(r) == r.relay_type = Load /\ r.priority >= priority_threshold
        to_shed == Ids(SelectSeq(rs, hit))
        assigned == Ids(SelectSeq(rs, LAMBDA r : hit(r) /\ r.is_closed))
    IN  Traced(Outcome([i \in DOMAIN rs |->
                            IF hit(rs[i]) THEN [rs[i] EXCEPT !.is_closed = FALSE] ELSE rs[i]],
                       st, Pushes(to_shed, FALSE)),
               Passes("shed_load", to_shed, assigned))

\* shed_load(priority_threshold)
shed_load(rs, st, priority_threshold) ==
    LET to_shed == Ids(SelectSeq(rs, LAMBDA r :
                        r.relay_type = Load /\ r.priority >= priority_threshold /\ r.is_closed))
        after == [i \in DOMAIN rs |->
                    IF rs[i].relay_type = Load /\ rs[i].priority >= priority_threshold
                    THEN (IF rs[i].is_closed THEN [rs[i] EXCEPT !.is_closed = FALSE] ELSE rs[i])
                    ELSE rs[i]]
        assigned == Ids(SelectSeq(rs, LAMBDA r :
                        r.relay_type = Load /\ r.priority >= priority_threshold /\ r.is_closed))
    IN  Traced(Outcome(after, st, Pushes(to_shed, FALSE)),
               Passes("shed_load", to_shed, assigned))

\* shed_all_loads that opens whatever is not a Grid relay
shed_all_loads_and_sources(rs, st) ==
    LET hit(r) == r.relay_type # Grid /\ r.is_closed
    IN  Outcome([i \in DOMAIN rs |-> IF hit(rs[i]) THEN [rs[i] EXCEPT !.is_closed = FALSE] ELSE rs[i]],
                st, Pushes(Ids(SelectSeq(rs, hit)), FALSE))

\* shed_all_loads that spares the Critical tier
shed_all_loads_sparing(rs, st) ==
    LET hit(r) == r.relay_type = Load /\ r.priority >= High /\ r.is_closed
    IN  Outcome([i \in DOMAIN rs |-> IF hit(rs[i]) THEN [rs[i] EXCEPT !.is_closed = FALSE] ELSE rs[i]],
                st, Pushes(Ids(SelectSeq(rs, hit)), FALSE))

\* shed_all_loads that collects the ids after the assignment loop
shed_all_loads_select_late(rs, st) ==
    LET assigned == Ids(SelectSeq(rs, LAMBDA r : r.relay_type = Load /\ r.is_closed))
        after == [i \in DOMAIN rs |->
                    IF rs[i].relay_type = Load /\ rs[i].is_closed
                    THEN [rs[i] EXCEPT !.is_closed = FALSE] ELSE rs[i]]
        load_ids == Ids(SelectSeq(after, LAMBDA r : r.relay_type = Load /\ r.is_closed))
    IN  Traced(Outcome(after, st, Pushes(load_ids, FALSE)),
               Evs("mutate", "shed_all_loads", assigned)
                   \o Evs("select", "shed_all_loads", load_ids)
                   \o Evs("push", "shed_all_loads", load_ids))

\* shed_all_loads()
shed_all_loads(rs, st) ==
    LET load_ids == Ids(SelectSeq(rs, LAMBDA r : r.relay_type = Load /\ r.is_closed))
        after == [i \in DOMAIN rs |->
                    IF rs[i].relay_type = Load /\ rs[i].is_closed
                    THEN [rs[i] EXCEPT !.is_closed = FALSE] ELSE rs[i]]
        assigned == Ids(SelectSeq(rs, LAMBDA r : r.relay_type = Load /\ r.is_closed))
    IN  Traced(Outcome(after, st, Pushes(load_ids, FALSE)),
               Passes("shed_all_loads", load_ids, assigned))

\* disconnect_grid that drops the Grid relays from the inventory
disconnect_grid_removing(rs, st) ==
    LET grid_relay_ids == Ids(SelectSeq(rs, LAMBDA r : r.relay_type = Grid))
    IN  Traced(Outcome(SelectSeq(rs, LAMBDA r : r.relay_type # Grid), st,
                       Pushes(grid_relay_ids, FALSE)),
               Passes("disconnect_grid", grid_relay_ids, grid_relay_ids))

\* disconnect_grid()
disconnect_grid(rs, st) ==
    LET grid_relay_ids == Ids(SelectSeq(rs, LAMBDA r : r.relay_type = Grid))
        after == [i \in DOMAIN rs |->
                    IF rs[i].relay_type = Grid
                    THEN [rs[i] EXCEPT !.is_closed = FALSE] ELSE rs[i]]
        assigned == Ids(SelectSeq(rs, LAMBDA r : r.relay_type = Grid))
    IN  Traced(Outcome(after, st, Pushes(grid_relay_ids, FALSE)),
               Passes("disconnect_grid", grid_relay_ids, assigned))

\* enter_island_mode that disconnects the grid under either mesh type
enter_island_mode_always_cut(rs, st, mesh) ==
    LET shed == shed_all_loads(rs, Islanded)
        cut == disconnect_grid(shed.relays, shed.state)
    IN  Traced(Outcome(cut.relays, cut.state, shed.pushes \o cut.pushes),
               shed.trace \o cut.trace)

\* enter_island_mode that takes the node to Islanded only from Normal or AlertSent
enter_island_mode_guarded(rs, st, mesh) ==
    LET shed == shed_all_loads(rs, IF st \in {Normal, AlertSent} THEN Islanded ELSE st)
    IN  IF mesh = AdHoc
        THEN LET cut == disconnect_grid(shed.relays, shed.state)
             IN  Traced(Outcome(cut.relays, cut.state, shed.pushes \o cut.pushes),
                        shed.trace \o cut.trace)
        ELSE shed

\* enter_island_mode with the arms of the mesh_type match swapped
enter_island_mode_cut_sanctioned(rs, st, mesh) ==
    LET shed == shed_all_loads(rs, Islanded)
    IN  IF mesh = GovernmentSanctioned
        THEN LET cut == disconnect_grid(shed.relays, shed.state)
             IN  Traced(Outcome(cut.relays, cut.state, shed.pushes \o cut.pushes),
                        shed.trace \o cut.trace)
        ELSE shed

\* enter_island_mode(): state first, then shed_all_loads, then disconnect_grid iff AdHoc
enter_island_mode(rs, st, mesh) ==
    LET shed == shed_all_loads(rs, Islanded)
    IN  IF mesh = AdHoc
        THEN LET cut == disconnect_grid(shed.relays, shed.state)
             IN  Traced(Outcome(cut.relays, cut.state, shed.pushes \o cut.pushes),
                        shed.trace \o cut.trace)
        ELSE shed

\* enter_blackstart_mode that sheds the loads again
enter_blackstart_mode_shedding(rs, st) == shed_all_loads(rs, BlackStart)

\* enter_blackstart_mode(): the state alone
enter_blackstart_mode(rs, st) == Outcome(rs, BlackStart, <<>>)

\* activate_relays_by_priority that also takes the more protected tiers (<= for ==)
activate_relays_by_priority_and_above(rs, st, priority) ==
    LET hit(r) == r.priority <= priority /\ ~r.is_closed
    IN  Outcome([i \in DOMAIN rs |-> IF hit(rs[i]) THEN [rs[i] EXCEPT !.is_closed = TRUE] ELSE rs[i]],
                st, Pushes(Ids(SelectSeq(rs, hit)), TRUE))

\* activate_relays_by_priority that closes the relays in the inventory only,
\* without a set_physical_relay call
activate_relays_by_priority_unpushed(rs, st, priority) ==
    LET hit(r) == r.priority = priority /\ ~r.is_closed
    IN  Outcome([i \in DOMAIN rs |-> IF hit(rs[i]) THEN [rs[i] EXCEPT !.is_closed = TRUE] ELSE rs[i]],
                st, <<>>)

\* activate_relays_by_priority(priority)
activate_relays_by_priority(rs, st, priority) ==
    LET to_activate == Ids(SelectSeq(rs, LAMBDA r : r.priority = priority /\ ~r.is_closed))
        after == [i \in DOMAIN rs |->
                    IF rs[i].priority = priority /\ ~rs[i].is_closed
                    THEN [rs[i] EXCEPT !.is_closed = TRUE] ELSE rs[i]]
        assigned == Ids(SelectSeq(rs, LAMBDA r : r.priority = priority /\ ~r.is_closed))
    IN  Traced(Outcome(after, st, Pushes(to_activate, TRUE)),
               Passes("activate_relays_by_priority", to_activate, assigned))

\* ------------------------------------------------------- command dispatch
\* handle_load_shed_command that sheds at threshold High
handle_load_shed_command_high(rs, st, cmd) ==
    IF cmd.target_node_id = SelfId
    THEN (IF cmd.shed_load THEN shed_load(rs, st, High) ELSE Outcome(rs, st, <<>>))
    ELSE Outcome(rs, st, <<>>)

\* handle_load_shed_command that sheds whatever the shed_load flag says
handle_load_shed_command_unflagged(rs, st, cmd) ==
    IF cmd.target_node_id = SelfId
    THEN shed_load(rs, st, Medium)
    ELSE Outcome(rs, st, <<>>)

\* handle_load_shed_command
handle_load_shed_command(rs, st, cmd) ==
    IF cmd.target_node_id = SelfId
    THEN (IF cmd.shed_load THEN shed_load(rs, st, Medium) ELSE Outcome(rs, st, <<>>))
    ELSE Outcome(rs, st, <<>>)

\* handle_enter_island_command without the target_node_id filter
handle_enter_island_command_untargeted(rs, st, mesh, cmd) == enter_island_mode(rs, st, mesh)

\* handle_enter_island_command
handle_enter_island_command(rs, st, mesh, cmd) ==
    IF cmd.target_node_id = SelfId
    THEN enter_island_mode(rs, st, mesh)
    ELSE Outcome(rs, st, <<>>)

\* handle_enter_blackstart_command
handle_enter_blackstart_command(rs, st, cmd) ==
    IF cmd.target_node_id = SelfId
    THEN enter_blackstart_mode(rs, st)
    ELSE Outcome(rs, st, <<>>)

\* handle_activate_relay_by_index that takes the wire index as a 1-based position
\* (in range from 1 to len)
handle_activate_relay_by_index_one_based(rs, st, cmd, overflow_checks) ==
    IF cmd.target_node_id = SelfId
    THEN LET index == cmd.relay_index
         IN  IF 1 <= index /\ index <= Len(rs)
             THEN Outcome([rs EXCEPT ![index].is_closed = TRUE], st,
                          <<Push(rs[index].id, TRUE)>>)
             ELSE [Outcome(rs, st, <<>>) EXCEPT !.panic = (Len(rs) = 0 /\ overflow_checks)]
    ELSE Outcome(rs, st, <<>>)

\* handle_activate_relay_by_index. relay_index is 0-based on the wire; the
\* inventory sequence is 1-based. The warning of the out-of-range branch
\* evaluates self.relays.len() - 1 in usize: with an empty inventory that
\* subtraction overflows, which panics when the build checks overflow
\* (overflow_checks) and wraps otherwise.
handle_activate_relay_by_index(rs, st, cmd, overflow_checks) ==
    IF cmd.target_node_id = SelfId
    THEN LET index == cmd.relay_index
         IN  IF index < Len(rs)
             THEN Traced(Outcome([rs EXCEPT ![index + 1].is_closed = TRUE], st,
                                 <<Push(rs[index + 1].id, TRUE)>>),
                         Passes("activate_relay_by_index",
                                <<rs[index + 1].id>>, <<rs[index + 1].id>>))
             ELSE [Outcome(rs, st, <<>>) EXCEPT !.panic = (Len(rs) = 0 /\ overflow_checks)]
    ELSE Outcome(rs, st, <<>>)

\* the wire priority code with Critical as the default of the match
PriorityOfCode_default_critical(code) ==
    CASE code = 1 -> High
      [] code = 2 -> Medium
      [] code = 3 -> Low
      [] OTHER -> Critical

\* the wire priority code of ActivateRelayByPriority as a Priority
PriorityOfCode(code) ==
    CASE code = 0 -> Critical
      [] code = 1 -> High
      [] code = 2 -> Medium
      [] OTHER -> Low

\* handle_activate_relay_by_priority
handle_activate_relay_by_priority(rs, st, cmd) ==
    IF cmd.target_node_id = SelfId
    THEN activate_relays_by_priority(rs, st, PriorityOfCode(cmd.priority))
    ELSE Outcome(rs, st, <<>>)

\* the match of run() over the command received
Dispatch(rs, st, mesh, cmd, overflow_checks) ==
    CASE cmd.kind = "LoadShed" -> handle_load_shed_command(rs, st, cmd)
      [] cmd.kind = "EnterIsland" -> handle_enter_island_command(rs, st, mesh, cmd)
      [] cmd.kind = "EnterBlackStart" -> handle_enter_blackstart_command(rs, st, cmd)
      [] cmd.kind = "ActivateRelayByIndex" ->
            handle_activate_relay_by_index(rs, st, cmd, overflow_checks)
      [] cmd.kind = "ActivateRelayByPriority" -> handle_activate_relay_by_priority(rs, st, cmd)

\* ------------------------------------------------------------ the hardware
\* the implementations of trait RelayControl: the mock (gpio.rs), whose
\* set_relay always succeeds, and any other implementation, whose set_relay
\* may fail
NoDriver == "None"
MockRelayDriver == "Mock"
DynRelayDriver == "Dyn"

\* set_physical_relay: of the invocations made, those that reach the driver
\* (the relay id has a pin and a driver is attached), as set_relay(pin, closed)
DriverCalls(pushes, pins, driver) ==
    LET reach == SelectSeq(pushes, LAMBDA p : p.relay_id \in DOMAIN pins /\ driver # NoDriver)
    IN  [i \in DOMAIN reach |->
            [relay_id |-> reach[i].relay_id, pin |-> pins[reach[i].relay_id],
             closed |-> reach[i].closed, ok |-> TRUE]]

\* the driver after a sequence of set_relay calls: a call that succeeds records
\* its value for the pin, a call that fails changes nothing
RECURSIVE DriverAfter(_, _)
DriverAfter(ps, calls) ==
    IF calls = <<>> THEN ps
    ELSE LET c == Head(calls)
         IN  DriverAfter(IF c.ok THEN (c.pin :> c.closed) @@ ps ELSE ps, Tail(calls))

\* the calls with their results: each set_relay call may succeed or fail
Actuate(pushes) ==
    LET calls == DriverCalls(pushes, relay_pins, relay_driver)
    IN  \E oks \in [DOMAIN calls -> (IF relay_driver = MockRelayDriver THEN {TRUE} ELSE BOOLEAN)] :
            LET done == [i \in DOMAIN calls |-> [calls[i] EXCEPT !.ok = oks[i]]]
            IN  /\ hw_calls' = done
                /\ pin_state' = DriverAfter(pin_state, done)

\* a handler's result written back, with the inventory restored when a
\* set_relay call fails
Commit_rollback(out) ==
    /\ state' = out.state
    /\ pushed' = out.pushes
    /\ trace' = out.trace
    /\ Actuate(out.pushes)
    /\ relays' = IF \E k \in DOMAIN hw_calls' : ~hw_calls'[k].ok THEN relays ELSE out.relays

\* a handler's result written back to the node
Commit(out) ==
    /\ relays' = out.relays
    /\ state' = out.state
    /\ pushed' = out.pushes
    /\ trace' = out.trace
    /\ Actuate(out.pushes)

\* ------------------------------------------------------------ construction
\* the pin maps of a configuration: any subset of the relay ids has a pin,
\* distinct ids have distinct pins
PinMaps(rs) == {[i \in S |-> i] : S \in SUBSET {rs[j].id : j \in DOMAIN rs}}

Op(name, cmd, threshold, io) ==
    [op |-> name, cmd |-> cmd, threshold |-> threshold, io |-> io, watts |-> 0]

\* EdgeNode::new
New(rs, mesh, vref, client, sensor, driver, pins) ==
    /\ relays = rs
    /\ state = Normal
    /\ mesh_type = mesh
    /\ voltage_ref = vref
    /\ last_voltage = vref
    /\ has_client = client
    /\ has_sensor = sensor
    /\ relay_driver = driver
    /\ relay_pins = pins
    /\ pin_state = <<>>
    /\ last = Op("new", NoCmd, Critical, "none")
    /\ pre = [relays |-> rs, state |-> Normal]
    /\ pushed = <<>>
    /\ hw_calls = <<>>
    /\ sent = <<>>
    /\ trace = <<>>
    /\ running = "none"
    /\ due = [s \in Sources |-> 0]
    /\ inbox = <<>>

\* main(): a node with or without an orchestrator link, with no power sensor
\* and no relay driver, about to run()
Init ==
    /\ pc = "start"
    /\ \E rs \in Inventories, mesh \in MeshTypes, vref \in VoltageRefs, client \in BOOLEAN :
            New(rs, mesh, vref, client, FALSE, NoDriver, <<>>)

\* the tests of main.rs: a node with no link, sensor or driver and a healthy
\* reference voltage, driven through its public operations
InitTest ==
    /\ pc = "test"
    /\ \E rs \in Inventories, mesh \in MeshTypes :
            New(rs, mesh, 120, FALSE, FALSE, NoDriver, <<>>)

\* ------------------------------------------------------------ the event loop
\* one send_* step of the node: without a client nothing goes out
\* ("no_client"), else one message that the layer accepts ("ok") or fails ("err")
Sends(msg) ==
    {<<[msg |-> msg, result |-> r]>> : r \in (IF has_client THEN {"ok", "err"} ELSE {"no_client"})}

Begin == pre' = [relays |-> relays, state |-> state]

NoActuation == pushed' = <<>> /\ hw_calls' = <<>> /\ pin_state' = pin_state /\ trace' = <<>>

\* the loop taken one whole iteration at a time: the intervals and the link's
\* queue are not followed
Unscheduled == UNCHANGED <<running, due, inbox>>

\* run() that returns when the feature report cannot be sent
RunStartup_halting ==
    /\ pc = "start"
    /\ Begin
    /\ \E s \in Sends("FeatureReport") :
        /\ sent' = s
        /\ pc' = IF s[1].result = "err" THEN "panicked" ELSE "loop"
    /\ last' = Op("startup", NoCmd, Critical, "none")
    /\ NoActuation
    /\ UNCHANGED <<relays, state, last_voltage, config>>

\* run(), up to the loop: the feature report, then the timers
RunStartup ==
    /\ pc = "start"
    /\ Begin
    /\ \E s \in Sends("FeatureReport") : sent' = s
    /\ last' = Op("startup", NoCmd, Critical, "none")
    /\ pc' = "loop"
    /\ NoActuation
    /\ UNCHANGED <<relays, state, last_voltage, config>>

Startup == RunStartup /\ Unscheduled

\* what read_watts(0) returns: Ok(watts), of no power or of a 10 A load at
\* 120 V, or an error
Watts == {0, 1200}
Readings(read) == IF read = "ok" THEN Watts ELSE {0}

\* check_voltage that alerts on every under-voltage tick before islanding
check_voltage_realert(st, vref) ==
    [last_voltage |-> vref,
     alert |-> (vref < UNDERVOLTAGE_THRESHOLD /\ st \in {Normal, AlertSent}),
     state |-> IF vref < UNDERVOLTAGE_THRESHOLD /\ st \in {Normal, AlertSent} THEN AlertSent ELSE st]

\* check_voltage that goes back to Normal on a healthy voltage
check_voltage_recovering(st, vref) ==
    [last_voltage |-> vref,
     alert |-> (vref < UNDERVOLTAGE_THRESHOLD /\ st = Normal),
     state |-> IF vref < UNDERVOLTAGE_THRESHOLD
               THEN (IF st = Normal THEN AlertSent ELSE st)
               ELSE Normal]

\* check_voltage(): the sensing tick. The reading of read_watts is logged and
\* dropped: the voltage is voltage_ref on every branch
check_voltage(st, vref) ==
    [last_voltage |-> vref,
     alert |-> (vref < UNDERVOLTAGE_THRESHOLD /\ st = Normal),
     state |-> IF vref < UNDERVOLTAGE_THRESHOLD /\ st = Normal THEN AlertSent ELSE st]

\* check_voltage that returns at once when read_watts fails
RunCheckVoltage_aborting ==
    /\ pc = "loop"
    /\ Begin
    /\ \E read \in (IF has_sensor THEN {"ok", "err"} ELSE {"none"}) :
        /\ \E watts \in Readings(read) :
                last' = [Op("sensing", NoCmd, Critical, read) EXCEPT !.watts = watts]
        /\ LET r == check_voltage(state, voltage_ref)
           IN  IF read = "err"
               THEN last_voltage' = last_voltage /\ state' = state /\ sent' = <<>>
               ELSE /\ last_voltage' = r.last_voltage
                    /\ state' = r.state
                    /\ IF r.alert
                       THEN \E s \in Sends("VoltageAlert") : sent' = s
                       ELSE sent' = <<>>
    /\ NoActuation
    /\ UNCHANGED <<relays, pc, config>>

\* check_voltage that stays in Normal, to alert again, when the alert could
\* not be sent
RunCheckVoltage_retrying ==
    /\ pc = "loop"
    /\ Begin
    /\ \E read \in (IF has_sensor THEN {"ok", "err"} ELSE {"none"}) :
        \E watts \in Readings(read) :
            last' = [Op("sensing", NoCmd, Critical, read) EXCEPT !.watts = watts]
    /\ LET r == check_voltage(state, voltage_ref)
       IN  /\ last_voltage' = r.last_voltage
           /\ IF r.alert
              THEN \E s \in Sends("VoltageAlert") :
                    /\ sent' = s
                    /\ state' = IF s[1].result = "ok" THEN r.state ELSE state
              ELSE sent' = <<>> /\ state' = r.state
    /\ NoActuation
    /\ UNCHANGED <<relays, pc, config>>

\* check_voltage that takes a reading of no power for a dead line
RunCheckVoltage_metering ==
    /\ pc = "loop"
    /\ Begin
    /\ \E read \in (IF has_sensor THEN {"ok", "err"} ELSE {"none"}) :
        \E watts \in Readings(read) :
            /\ last' = [Op("sensing", NoCmd, Critical, read) EXCEPT !.watts = watts]
            /\ LET r == check_voltage(state, IF read = "ok" /\ watts = 0 THEN 0 ELSE voltage_ref)
               IN  /\ last_voltage' = r.last_voltage
                   /\ state' = r.state
                   /\ IF r.alert
                      THEN \E s \in Sends("VoltageAlert") : sent' = s
                      ELSE sent' = <<>>
    /\ NoActuation
    /\ UNCHANGED <<relays, pc, config>>

\* the body of the adc_interval branch: self.check_voltage().await
RunCheckVoltage ==
    /\ pc = "loop"
    /\ Begin
    /\ \E read \in (IF has_sensor THEN {"ok", "err"} ELSE {"none"}) :
        \E watts \in Readings(read) :
            last' = [Op("sensing", NoCmd, Critical, read) EXCEPT !.watts = watts]
    /\ LET r == check_voltage(state, voltage_ref)
       IN  /\ last_voltage' = r.last_voltage
           /\ state' = r.state
           /\ IF r.alert
              THEN \E s \in Sends("VoltageAlert") : sent' = s
              ELSE sent' = <<>>
    /\ NoActuation
    /\ UNCHANGED <<relays, pc, config>>

\* one iteration of the loop taking the adc_interval branch
SensingTick == RunCheckVoltage /\ Unscheduled

\* send_heartbeat that sheds every load when the link refuses the heartbeat
RunSendHeartbeat_failsafe ==
    /\ pc = "loop"
    /\ Begin
    /\ \E s \in Sends("Heartbeat") :
        /\ sent' = s
        /\ IF s[1].result = "err"
           THEN Commit(shed_all_loads(relays, state))
           ELSE NoActuation /\ UNCHANGED <<relays, state>>
    /\ last' = Op("heartbeat", NoCmd, Critical, "none")
    /\ UNCHANGED <<last_voltage, pc, config>>

\* the body of the heartbeat_interval branch: self.send_heartbeat().await
RunSendHeartbeat ==
    /\ pc = "loop"
    /\ Begin
    /\ \E s \in Sends("Heartbeat") : sent' = s
    /\ last' = Op("heartbeat", NoCmd, Critical, "none")
    /\ NoActuation
    /\ UNCHANGED <<relays, state, last_voltage, pc, config>>

\* one iteration of the loop taking the heartbeat_interval branch
HeartbeatTick == RunSendHeartbeat /\ Unscheduled

\* poll_for_command() finding nothing to dispatch: no client, a receive error,
\* no message, or a message that is no command
RunPollNothing(recvs) ==
    /\ pc = "loop"
    /\ Begin
    /\ \E recv \in recvs : last' = Op("poll", NoCmd, Critical, recv)
    /\ NoActuation
    /\ sent' = <<>>
    /\ UNCHANGED <<relays, state, last_voltage, pc, config>>

\* one iteration of the loop taking the message_poll_interval branch and
\* finding nothing
PollNothing ==
    /\ RunPollNothing(IF has_client THEN {"err", "empty", "ignored"} ELSE {"no_client"})
    /\ Unscheduled

\* the builds a dispatch can run under: only the out-of-range warning over an
\* empty inventory tells a build with overflow checks from one without
Builds(rs, cmd) ==
    IF cmd.kind = "ActivateRelayByIndex" /\ Len(rs) = 0 THEN BOOLEAN ELSE {FALSE}

\* poll_for_command() returning a command with or without a client
RunPollCommand_clientless(cmds) ==
    /\ pc = "loop"
    /\ Begin
    /\ \E cmd \in cmds :
        \E overflow_checks \in Builds(relays, cmd) :
            LET out == Dispatch(relays, state, mesh_type, cmd, overflow_checks)
            IN  /\ Commit(out)
                /\ last' = Op("poll", cmd, Critical, "command")
                /\ pc' = IF out.panic THEN "panicked" ELSE "loop"
    /\ sent' = <<>>
    /\ UNCHANGED <<last_voltage, config>>

\* poll_for_command() returning a command, and its dispatch
RunPollCommand(cmds) ==
    /\ pc = "loop"
    /\ has_client
    /\ Begin
    /\ \E cmd \in cmds :
        \E overflow_checks \in Builds(relays, cmd) :
            LET out == Dispatch(relays, state, mesh_type, cmd, overflow_checks)
            IN  /\ Commit(out)
                /\ last' = Op("poll", cmd, Critical, "command")
                /\ pc' = IF out.panic THEN "panicked" ELSE "loop"
    /\ sent' = <<>>
    /\ UNCHANGED <<last_voltage, config>>

\* one iteration of the loop taking the message_poll_interval branch and
\* dispatching the command received
PollCommand == RunPollCommand(Commands) /\ Unscheduled

Next == Startup \/ SensingTick \/ HeartbeatTick \/ PollNothing \/ PollCommand

Spec == Init /\ [][Next]_vars

\* an AdHoc node behind an orchestrator link, its relays Load or Grid, Critical
\* or Low, and all closed, with a relay driver attached whose set_relay may
\* fail, and a pin for any part of the inventory
InitHw ==
    /\ pc = "start"
    /\ \E rs \in {inv \in Inventories : \A i \in DOMAIN inv :
                        /\ inv[i].is_closed
                        /\ inv[i].relay_type \in {Load, Grid}
                        /\ inv[i].priority \in {Critical, Low}} :
        \E pins \in PinMaps(rs) :
            New(rs, AdHoc, 120, TRUE, FALSE, DynRelayDriver, pins)

SpecHw == InitHw /\ [][Next]_vars

\* an AdHoc node behind an orchestrator link, its relays Load or Grid, Critical
\* or Low, closed or open, with the MockRelayDriver attached, whose set_relay
\* never fails, and a pin for any part of the inventory
InitMock ==
    /\ pc = "start"
    /\ \E rs \in {inv \in Inventories : \A i \in DOMAIN inv :
                        /\ inv[i].relay_type \in {Load, Grid}
                        /\ inv[i].priority \in {Critical, Low}} :
        \E pins \in PinMaps(rs) :
            New(rs, AdHoc, 120, TRUE, FALSE, MockRelayDriver, pins)

SpecMock == InitMock /\ [][Next]_vars

\* an AdHoc node of at most one relay, with or without a power sensor whose
\* read_watts may fail, with or without an orchestrator link
InitSensor ==
    /\ pc = "start"
    /\ \E rs \in {inv \in Inventories : Len(inv) <= 1}, vref \in VoltageRefs,
          client \in BOOLEAN, sensor \in BOOLEAN :
            New(rs, AdHoc, vref, client, sensor, NoDriver, <<>>)

SpecSensor == InitSensor /\ [][Next]_vars

\* ------------------------------------------------- the loop, tick by tick
\* the node the scheduling is followed on: one closed Low load, AdHoc, an
\* orchestrator link, a reference voltage under the threshold
SchedInventory ==
    <<MkRelay(1, [relay_type |-> Load, priority |-> Low, is_closed |-> TRUE])>>

InitSched ==
    /\ pc = "start"
    /\ New(SchedInventory, AdHoc, 105, TRUE, FALSE, NoDriver, <<>>)

\* the commands the orchestrator sends it
SchedCommands ==
    {[kind |-> "EnterIsland", target_node_id |-> SelfId],
     [kind |-> "ActivateRelayByIndex", target_node_id |-> SelfId, relay_index |-> 0]}

\* run() up to the loop without the heartbeat_interval.tick().await: the
\* first tick of every interval is waiting when the loop begins
StartupSched_first_tick_kept ==
    /\ RunStartup
    /\ due' = [s \in Sources |-> 1]
    /\ UNCHANGED <<running, inbox>>

\* run() up to the loop. The first tick of an interval completes at once:
\* that of heartbeat_interval is awaited here, those of the other two are
\* waiting when the loop begins
StartupSched ==
    /\ RunStartup
    /\ due' = [s \in Sources |-> IF s = "heartbeat" THEN 0 ELSE 1]
    /\ UNCHANGED <<running, inbox>>

\* a period of an interval passes, whatever the loop is doing: the tick is
\* kept until the loop takes it (MissedTickBehavior::Burst, the default)
Elapse ==
    /\ pc = "loop"
    /\ \E s \in Sources :
        /\ due[s] < MaxBacklog
        /\ due' = [due EXCEPT ![s] = @ + 1]
    /\ UNCHANGED <<relays, state, last_voltage, config, pin_state, pc, last, pre, pushed,
                   hw_calls, sent, trace, running, inbox>>

\* a command reaches the link
Arrive ==
    /\ has_client
    /\ Len(inbox) < MaxInbox
    /\ \E cmd \in SchedCommands : inbox' = Append(inbox, cmd)
    /\ UNCHANGED <<relays, state, last_voltage, config, pin_state, pc, last, pre, pushed,
                   hw_calls, sent, trace, running, due>>

\* a select! that polls the tick of an interval whatever the task is doing
Ready_preempting(s) == due[s] > 0

\* a select! that polls message_poll_interval first and the others only when
\* it is pending
Ready_poll_first(s) ==
    running = "none" /\ due[s] > 0 /\ (s # "poll" => due["poll"] = 0)

\* the branch of interval s can complete the select!: the task is at the
\* select! (the body of the branch taken last has returned) and a tick of s
\* is waiting
Ready(s) == running = "none" /\ due[s] > 0

\* select! completes with the branch of interval s: it takes one tick of s,
\* and that branch's body starts
Select(s) ==
    /\ pc = "loop"
    /\ Ready(s)
    /\ running' = s
    /\ due' = [due EXCEPT ![s] = @ - 1]
    /\ UNCHANGED <<relays, state, last_voltage, config, pin_state, pc, last, pre, pushed,
                   hw_calls, sent, trace, inbox>>

\* CommunicationLayer::receive, called once per poll_for_command: the oldest
\* message the link holds, if any
receive(q) ==
    IF q = <<>> THEN [msg |-> NoCmd, rest |-> q] ELSE [msg |-> Head(q), rest |-> Tail(q)]

\* the body of the adc_interval branch returns
SensingDone ==
    /\ running = "sensing"
    /\ RunCheckVoltage
    /\ running' = "none"
    /\ UNCHANGED <<due, inbox>>

\* the body of the heartbeat_interval branch returns
HeartbeatDone ==
    /\ running = "heartbeat"
    /\ RunSendHeartbeat
    /\ running' = "none"
    /\ UNCHANGED <<due, inbox>>

\* the body of the message_poll_interval branch returns: one receive(), and
\* the dispatch of the command if there was one
PollDone ==
    /\ running = "poll"
    /\ LET got == receive(inbox)
       IN  /\ inbox' = got.rest
           /\ IF got.msg = NoCmd
              THEN RunPollNothing({"empty"})
              ELSE RunPollCommand({got.msg})
    /\ running' = "none"
    /\ UNCHANGED due

NextSched ==
    \/ StartupSched
    \/ Elapse
    \/ Arrive
    \/ \E s \in Sources : Select(s)
    \/ SensingDone
    \/ HeartbeatDone
    \/ PollDone

SpecSched == InitSched /\ [][NextSched]_vars

\* select! polls its branches starting from a random one, so a branch that is
\* ready each time the loop comes round is taken sooner or later; a body that
\* has started returns (the link and the sensor answer promptly)
Fairness ==
    /\ WF_vars(StartupSched)
    /\ \A s \in Sources : SF_vars(Select(s))
    /\ WF_vars(SensingDone)
    /\ WF_vars(HeartbeatDone)
    /\ WF_vars(PollDone)

SpecFair == SpecSched /\ Fairness

\* ------------------------------------------------- the public operations
\* node.shed_load(priority_threshold), called directly
CallShedLoad ==
    /\ pc = "test"
    /\ Begin
    /\ \E t \in Priorities :
        /\ Commit(shed_load(relays, state, t))
        /\ last' = Op("shed_load", NoCmd, t, "none")
    /\ sent' = <<>>
    /\ Unscheduled
    /\ UNCHANGED <<last_voltage, pc, config>>

\* node.enter_island_mode(), called directly
CallEnterIslandMode ==
    /\ pc = "test"
    /\ Begin
    /\ Commit(enter_island_mode(relays, state, mesh_type))
    /\ last' = Op("enter_island_mode", NoCmd, Critical, "none")
    /\ sent' = <<>>
    /\ Unscheduled
    /\ UNCHANGED <<last_voltage, pc, config>>

\* node.enter_blackstart_mode(), called directly
CallEnterBlackstartMode ==
    /\ pc = "test"
    /\ Begin
    /\ Commit(enter_blackstart_mode(relays, state))
    /\ last' = Op("enter_blackstart_mode", NoCmd, Critical, "none")
    /\ sent' = <<>>
    /\ Unscheduled
    /\ UNCHANGED <<last_voltage, pc, config>>

\* node.shed_load(t); node.shed_load(t): the same call twice in a row. pre is
\* the node between the two calls, pushed and hw_calls are those of the second
\* call, trace holds the steps of both
CallShedLoadTwice ==
    /\ pc = "test"
    /\ \E t \in Priorities :
        LET first == shed_load(relays, state, t)
            second == shed_load(first.relays, first.state, t)
        IN  /\ pre' = [relays |-> first.relays, state |-> first.state]
            /\ Commit(Traced(second, first.trace \o second.trace))
            /\ last' = Op("shed_load_twice", NoCmd, t, "none")
    /\ sent' = <<>>
    /\ Unscheduled
    /\ UNCHANGED <<last_voltage, pc, config>>

NextTest == CallShedLoad \/ CallEnterIslandMode \/ CallEnterBlackstartMode \/ CallShedLoadTwice

SpecTest == InitTest /\ [][NextTest]_vars

\* ================================================================ claims
\* the handler that ran last was the dispatch of a command of kind k
Dispatched(k) == last.op = "poll" /\ last.io = "command" /\ last.cmd.kind = k
\* ... addressed to this node
Targeted(k) == Dispatched(k) /\ last.cmd.target_node_id = SelfId

Indexes == DOMAIN relays
SameShape == DOMAIN pre.relays = DOMAIN relays
IsOpen(i) == ~relays[i].is_closed
WasClosed(i) == pre.relays[i].is_closed
TypeOf(i) == pre.relays[i].relay_type
PriorityOf(i) == pre.relays[i].priority
Untouched(i) == relays[i] = pre.relays[i]

\* C1: after enter_island_mode() under AdHoc (reached through a targeted
\* EnterIsland, from any node state and any inventory) the node is Islanded and
\* every Grid relay and every Load relay is open.
C1_IslandAdHocOpensGridAndLoads ==
    (Targeted("EnterIsland") /\ mesh_type = AdHoc) =>
        /\ state = Islanded
        /\ SameShape
        /\ \A i \in Indexes : relays[i].relay_type \in {Grid, Load} => IsOpen(i)

\* C1 witness: from AlertSent, with a Grid relay and a Load relay both closed
C1_Witness ==
    /\ Targeted("EnterIsland") /\ mesh_type = AdHoc
    /\ pre.state = AlertSent /\ state = Islanded
    /\ \E i, j \in Indexes :
        /\ TypeOf(i) = Grid /\ WasClosed(i) /\ IsOpen(i)
        /\ TypeOf(j) = Load /\ WasClosed(j) /\ IsOpen(j)

\* C2: enter_island_mode() under GovernmentSanctioned leaves every Grid
\* relay's is_closed as it was, opens every Load relay and sets Islanded.
C2_IslandGovernmentKeepsGrid ==
    (Targeted("EnterIsland") /\ mesh_type = GovernmentSanctioned) =>
        /\ state = Islanded
        /\ SameShape
        /\ \A i \in Indexes :
            /\ TypeOf(i) = Grid => relays[i].is_closed = pre.relays[i].is_closed
            /\ TypeOf(i) = Load => IsOpen(i)

\* C2 witness: a closed Grid relay stays closed while a closed Load relay opens
C2_Witness ==
    /\ Targeted("EnterIsland") /\ mesh_type = GovernmentSanctioned
    /\ state = Islanded
    /\ \E i, j \in Indexes :
        /\ TypeOf(i) = Grid /\ WasClosed(i) /\ relays[i].is_closed
        /\ TypeOf(j) = Load /\ WasClosed(j) /\ IsOpen(j)

\* C3: shed_load(threshold) opens every Load relay of priority >= threshold
\* that was closed; at threshold Low the relays it changes are exactly the
\* closed Low loads, at threshold Medium exactly the closed Medium and Low loads.
C3_ShedLoadOpensAtOrBelowThreshold ==
    last.op = "shed_load" =>
        /\ SameShape
        /\ \A i \in Indexes :
            (TypeOf(i) = Load /\ PriorityOf(i) >= last.threshold /\ WasClosed(i)) => IsOpen(i)
        /\ last.threshold = Low =>
            \A i \in Indexes :
                ~Untouched(i) <=> (TypeOf(i) = Load /\ PriorityOf(i) = Low /\ WasClosed(i))
        /\ last.threshold = Medium =>
            \A i \in Indexes :
                ~Untouched(i) <=>
                    (TypeOf(i) = Load /\ PriorityOf(i) \in {Medium, Low} /\ WasClosed(i))

\* C3 witness: test_load_shedding, a closed Medium load and a closed Low load,
\* shed_load(Low): the Low load opens, the Medium load stays closed
C3_Witness ==
    /\ last.op = "shed_load" /\ last.threshold = Low
    /\ Len(relays) = 2
    /\ TypeOf(1) = Load /\ PriorityOf(1) = Medium /\ WasClosed(1) /\ relays[1].is_closed
    /\ TypeOf(2) = Load /\ PriorityOf(2) = Low /\ WasClosed(2) /\ IsOpen(2)

\* C4: shed_load(t) leaves every relay of priority < t and every Source and
\* Grid relay as it was, and leaves the node state as it was.
C4_ShedLoadFrame ==
    last.op = "shed_load" =>
        /\ SameShape
        /\ state = pre.state
        /\ \A i \in Indexes :
            (PriorityOf(i) < last.threshold \/ TypeOf(i) \in {Source, Grid}) => Untouched(i)

\* C4 witness: shed_load(Medium) opens a Low load and leaves a closed Low-priority
\* Grid relay closed
C4_Witness ==
    /\ last.op = "shed_load" /\ last.threshold = Medium
    /\ state = Normal
    /\ \E i, j \in Indexes :
        /\ TypeOf(i) = Load /\ PriorityOf(i) = Low /\ WasClosed(i) /\ IsOpen(i)
        /\ TypeOf(j) = Grid /\ PriorityOf(j) = Low /\ WasClosed(j) /\ relays[j].is_closed

\* C5: a command of any variant addressed to another node changes no relay,
\* leaves the node state and drives no hardware.
C5_ForeignCommandDiscarded ==
    (last.op = "poll" /\ last.io = "command" /\ last.cmd.target_node_id # SelfId) =>
        /\ relays = pre.relays
        /\ state = pre.state
        /\ pushed = <<>>
        /\ hw_calls = <<>>
        /\ pc = "loop"

\* C5 witness: an EnterIsland for another node, in AlertSent under AdHoc with a
\* closed Grid relay and a closed Load relay: nothing moved
C5_Witness ==
    /\ Dispatched("EnterIsland") /\ last.cmd.target_node_id # SelfId
    /\ mesh_type = AdHoc
    /\ state = AlertSent
    /\ \E i, j \in Indexes :
        /\ relays[i].relay_type = Grid /\ relays[i].is_closed
        /\ relays[j].relay_type = Load /\ relays[j].is_closed

\* C6: a targeted EnterIsland leaves the node Islanded, whatever state it was in.
C6_EnterIslandFromAnyState ==
    Targeted("EnterIsland") => state = Islanded

\* C6 witness: EnterIsland received in BlackStart
C6_Witness ==
    Targeted("EnterIsland") /\ pre.state = BlackStart /\ state = Islanded

\* C7: a targeted EnterBlackStart in Islanded moves the node to BlackStart,
\* changes no relay and makes no hardware actuation.
C7_BlackStartFromIslanded ==
    (Targeted("EnterBlackStart") /\ pre.state = Islanded) =>
        /\ state = BlackStart
        /\ relays = pre.relays
        /\ pushed = <<>>
        /\ hw_calls = <<>>

\* C7 witness: EnterBlackStart in Islanded with a Load relay closed again (by a
\* targeted activation after the island transition), which stays closed
C7_Witness ==
    /\ Targeted("EnterBlackStart") /\ pre.state = Islanded /\ state = BlackStart
    /\ \E i \in Indexes : relays[i].relay_type = Load /\ WasClosed(i) /\ relays[i].is_closed

\* a voltage alert among the messages of the last handler
AlertsSent == {k \in DOMAIN sent : sent[k].msg = "VoltageAlert"}
UnderVoltageTick == last.op = "sensing" /\ last_voltage < UNDERVOLTAGE_THRESHOLD

\* C8: an under-voltage sensing tick in Normal moves the node to AlertSent and
\* emits one voltage alert; an under-voltage sensing tick in AlertSent emits
\* none and leaves the node in AlertSent.
C8_AlertOncePerEpisode ==
    UnderVoltageTick =>
        /\ pre.state = Normal => (state = AlertSent /\ Cardinality(AlertsSent) = 1)
        /\ pre.state = AlertSent => (state = AlertSent /\ AlertsSent = {})

\* C8 witness: a later under-voltage tick, in AlertSent, with no alert
C8_Witness ==
    UnderVoltageTick /\ has_client /\ pre.state = AlertSent /\ state = AlertSent /\ sent = <<>>

\* C9: the node starts in Normal and, once it has left Normal, no handler
\* brings it back.
C9_NoReturnToNormal ==
    /\ last.op = "new" => state = Normal
    /\ pre.state # Normal => state # Normal

\* C9 witness: a healthy sensing tick after the island transition leaves the
\* node Islanded
C9_Witness ==
    /\ last.op = "sensing" /\ last_voltage >= UNDERVOLTAGE_THRESHOLD
    /\ pre.state = Islanded /\ state = Islanded

\* C10: the node state changes only by the transition table: Normal to
\* AlertSent on an under-voltage sensing tick, anything to Islanded on a
\* targeted EnterIsland, Islanded to BlackStart on a targeted EnterBlackStart.
C10_OnlyTableTransitions ==
    state # pre.state =>
        \/ pre.state = Normal /\ state = AlertSent /\ UnderVoltageTick
        \/ state = Islanded /\ Targeted("EnterIsland")
        \/ pre.state = Islanded /\ state = BlackStart /\ Targeted("EnterBlackStart")

\* C11: a targeted ActivateRelayByIndex{i} with i < len(relays) closes the
\* relay at position i (0-based, construction order) and leaves is_closed of
\* every other relay as it was; with i >= len(relays) it changes no relay.
C11_ActivateByIndexClosesExactlyOne ==
    Targeted("ActivateRelayByIndex") =>
        /\ SameShape
        /\ last.cmd.relay_index < Len(pre.relays) =>
            /\ relays[last.cmd.relay_index + 1].is_closed
            /\ \A j \in Indexes :
                j # last.cmd.relay_index + 1 => relays[j].is_closed = pre.relays[j].is_closed
        /\ last.cmd.relay_index >= Len(pre.relays) => relays = pre.relays

\* C11 witness: index 1 of two open relays: the second closes, the first stays open
C11_Witness ==
    /\ Targeted("ActivateRelayByIndex") /\ last.cmd.relay_index = 1
    /\ Len(relays) = 2
    /\ ~WasClosed(1) /\ ~WasClosed(2)
    /\ IsOpen(1) /\ relays[2].is_closed

\* C12: a targeted ActivateRelayByIndex with an out-of-range index is a
\* warning only, for every inventory length: the handler returns and the loop
\* goes on.
C12_OutOfRangeIndexIsNotFatal ==
    (Targeted("ActivateRelayByIndex") /\ last.cmd.relay_index >= Len(pre.relays)) =>
        pc = "loop"

\* C13: activate_relays_by_priority(p) closes every open relay of priority
\* exactly p, leaves relays of priority p that were closed closed, and changes
\* no relay of another priority (p given by the wire codes 0..3 of the tiers).
C13_ActivateByPriorityExactTier ==
    (Targeted("ActivateRelayByPriority") /\ last.cmd.priority \in Priorities) =>
        /\ SameShape
        /\ \A i \in Indexes :
            /\ PriorityOf(i) = last.cmd.priority => relays[i].is_closed
            /\ PriorityOf(i) # last.cmd.priority => Untouched(i)

\* C13 witness: tier High, with an open High relay that closes and an open
\* Critical relay that stays open
C13_Witness ==
    /\ Targeted("ActivateRelayByPriority") /\ last.cmd.priority = High
    /\ \E i, j \in Indexes :
        /\ PriorityOf(i) = High /\ ~WasClosed(i) /\ relays[i].is_closed
        /\ PriorityOf(j) = Critical /\ ~WasClosed(j) /\ IsOpen(j)

\* C14: a targeted LoadShed{shed_load = true} opens every closed Load relay of
\* priority Medium or Low and leaves Load relays of priority Critical or High,
\* every Source and Grid relay and the node state as they were.
C14_LoadShedCommandShedsAtMedium ==
    (Targeted("LoadShed") /\ last.cmd.shed_load) =>
        /\ SameShape
        /\ state = pre.state
        /\ \A i \in Indexes :
            IF TypeOf(i) = Load /\ PriorityOf(i) \in {Medium, Low}
            THEN IsOpen(i)
            ELSE Untouched(i)

\* C14 witness: a closed Medium load opens next to a closed High load that stays
C14_Witness ==
    /\ Targeted("LoadShed") /\ last.cmd.shed_load
    /\ \E i, j \in Indexes :
        /\ TypeOf(i) = Load /\ PriorityOf(i) = Medium /\ WasClosed(i) /\ IsOpen(i)
        /\ TypeOf(j) = Load /\ PriorityOf(j) = High /\ WasClosed(j) /\ relays[j].is_closed

\* C15: a targeted LoadShed{shed_load = false} changes no relay and no state
\* and drives no hardware, in every node state.
C15_LoadRestoreIsNoOp ==
    (Targeted("LoadShed") /\ ~last.cmd.shed_load) =>
        /\ relays = pre.relays
        /\ state = pre.state
        /\ pushed = <<>>
        /\ hw_calls = <<>>
        /\ pc = "loop"

\* C15 witness: the restore command with a closed Low load (which a shed
\* would open) and an open one (which a restore would close)
C15_Witness ==
    /\ Targeted("LoadShed") /\ ~last.cmd.shed_load
    /\ \E i, j \in Indexes :
        /\ TypeOf(i) = Load /\ PriorityOf(i) = Low /\ relays[i].is_closed
        /\ TypeOf(j) = Load /\ IsOpen(j)

\* the tier the wire code of the last command stands for
TierOfLastCode ==
    IF last.cmd.priority = 0 THEN Critical
    ELSE IF last.cmd.priority = 1 THEN High
    ELSE IF last.cmd.priority = 2 THEN Medium
    ELSE Low

\* C16: a targeted ActivateRelayByPriority acts on the tier its wire code
\* stands for, 0 Critical, 1 High, 2 Medium and every other code Low: the
\* relays it closes are the open relays of that tier, so an unrecognized code
\* closes Low relays only.
C16_WirePriorityMapping ==
    Targeted("ActivateRelayByPriority") =>
        /\ SameShape
        /\ \A i \in Indexes :
            ~Untouched(i) <=> (PriorityOf(i) = TierOfLastCode /\ ~WasClosed(i))
        /\ last.cmd.priority \notin {0, 1, 2, 3} =>
            \A i \in Indexes : ~Untouched(i) => PriorityOf(i) = Low

\* C16 witness: the unrecognized code 4 closes an open Low relay and leaves an
\* open Critical relay open
C16_Witness ==
    /\ Targeted("ActivateRelayByPriority") /\ last.cmd.priority = 4
    /\ \E i, j \in Indexes :
        /\ PriorityOf(i) = Low /\ ~WasClosed(i) /\ relays[i].is_closed
        /\ PriorityOf(j) = Critical /\ ~WasClosed(j) /\ IsOpen(j)

\* the set_physical_relay invocations of the last handler for the relay at i
PushesFor(i) == SelectSeq(pushed, LAMBDA p : p.relay_id = pre.relays[i].id)
\* ... of which those that never reached the driver (no pin for the relay id)
Skipped(p) == \A k \in DOMAIN hw_calls : hw_calls[k].relay_id # p.relay_id
\* a set_relay call of the last handler failed
SomeCallFailed == \E k \in DOMAIN hw_calls : ~hw_calls[k].ok

\* C17: after a dispatched command the inventory is what the operation
\* intended, whatever became of the hardware pushes: a relay the operation
\* pushed holds the value pushed for it (whether that set_relay call
\* succeeded, failed, or was skipped for want of a pin), every other relay is
\* as it was, and a failed call does not stop the loop.
C17_InventoryIndependentOfHardware ==
    (last.op = "poll" /\ last.io = "command") =>
        /\ SameShape
        /\ \A i \in Indexes :
            LET mine == PushesFor(i)
            IN  relays[i].is_closed =
                    IF mine = <<>> THEN pre.relays[i].is_closed ELSE mine[Len(mine)].closed
        /\ SomeCallFailed => pc = "loop"

\* C17 witness: an EnterIsland that opens two closed relays, one whose
\* set_relay call failed and one whose push was skipped for want of a pin
C17_Witness ==
    /\ Targeted("EnterIsland") /\ pc = "loop"
    /\ \E i, j \in Indexes :
        /\ WasClosed(i) /\ IsOpen(i) /\ WasClosed(j) /\ IsOpen(j)
        /\ \E k \in DOMAIN hw_calls : hw_calls[k].relay_id = relays[i].id /\ ~hw_calls[k].ok
        /\ \E k \in DOMAIN pushed : pushed[k].relay_id = relays[j].id /\ Skipped(pushed[k])

\* the relay ids of the steps of one kind that the last handler took in one
\* operation, in order
StepIds(kind, op) ==
    LET es == SelectSeq(trace, LAMBDA x : x.ev = kind /\ x.op = op)
    IN  [k \in DOMAIN es |-> es[k].relay_id]
\* the operations the last handler went through
OpsTraced == {trace[k].op : k \in DOMAIN trace}
\* the relays an operation is to act on, read off the inventory as it was
\* before the handler
Meets(op, i) ==
    CASE op = "shed_load" -> TypeOf(i) = Load /\ PriorityOf(i) >= Medium /\ WasClosed(i)
      [] op = "shed_all_loads" -> TypeOf(i) = Load /\ WasClosed(i)
      [] op = "disconnect_grid" -> TypeOf(i) = Grid
      [] op = "activate_relays_by_priority" -> PriorityOf(i) = TierOfLastCode /\ ~WasClosed(i)
      [] op = "activate_relay_by_index" -> i = last.cmd.relay_index + 1
SeqToSet(q) == {q[k] : k \in DOMAIN q}

\* C18: in every mutating operation of a dispatched command, every is_closed
\* assignment of the operation comes before its first set_physical_relay
\* invocation (hence before its first set_relay call), the relays pushed are
\* the relays collected, in the same order, the collecting comes before the
\* first assignment and picks the relays that met the operation's criterion
\* before it, and the set_relay calls are the pushes that have a pin.
C18_MutateThenPushTheSelected ==
    (last.op = "poll" /\ last.io = "command") =>
        /\ \A a, b \in DOMAIN trace :
            (trace[a].op = trace[b].op /\ trace[b].ev = "mutate") =>
                /\ trace[a].ev = "push" => b < a
                /\ trace[a].ev = "select" => a < b
        /\ \A op \in OpsTraced :
            /\ StepIds("push", op) = StepIds("select", op)
            /\ SeqToSet(StepIds("select", op)) = {pre.relays[i].id : i \in {j \in Indexes : Meets(op, j)}}
            /\ SeqToSet(StepIds("mutate", op)) \subseteq SeqToSet(StepIds("select", op))
        /\ [k \in DOMAIN pushed |-> pushed[k].relay_id]
                = LET ps == SelectSeq(trace, LAMBDA x : x.ev = "push")
                  IN  [k \in DOMAIN ps |-> ps[k].relay_id]
        /\ [k \in DOMAIN hw_calls |-> hw_calls[k].relay_id]
                = LET ps == SelectSeq(pushed, LAMBDA p : p.relay_id \in DOMAIN relay_pins)
                  IN  [k \in DOMAIN ps |-> ps[k].relay_id]

\* C18 witness: an EnterIsland over two closed loads with pins: two
\* collected, two assigned, two pushed, two set_relay calls
C18_Witness ==
    /\ Targeted("EnterIsland")
    /\ Len(StepIds("select", "shed_all_loads")) = 2
    /\ Len(StepIds("mutate", "shed_all_loads")) = 2
    /\ Len(StepIds("push", "shed_all_loads")) = 2
    /\ Len(hw_calls) = 2
    /\ \A i \in Indexes : WasClosed(i) /\ IsOpen(i)

\* what a handler may change of the node
node == <<relays, state, last_voltage, last, sent, pushed, pc>>

\* C19: the body of a branch starts only when no body is executing, one
\* select! takes one tick of one interval and starts that branch's body, the
\* node changes only when the executing body returns (or at startup), and a
\* body of the poll branch takes at most one message off the link: the oldest
\* one, which is the command it dispatches.
C19_OneHandlerPerIteration ==
    [][/\ running' # running => (running = "none" \/ running' = "none")
       /\ (running = "none" /\ running' # "none") =>
            /\ running' \in Sources
            /\ due[running'] > 0
            /\ due' = [due EXCEPT ![running'] = @ - 1]
            /\ node' = node /\ inbox' = inbox
       /\ node' # node =>
            \/ pc = "start"
            \/ running \in Sources /\ running' = "none" /\ last'.op = running
       /\ Len(inbox') >= Len(inbox) - 1
       /\ Len(inbox') < Len(inbox) =>
            /\ running = "poll" /\ running' = "none"
            /\ last'.io = "command" /\ last'.cmd = Head(inbox)
            /\ inbox' = Tail(inbox)
       /\ (running = "poll" /\ running' = "none" /\ last'.io = "command") =>
            Len(inbox') = Len(inbox) - 1
      ]_vars

\* C19 witness: a poll body has returned having dispatched one command, another
\* command is still on the link, and ticks of the other two intervals wait
C19_Witness ==
    /\ running = "none"
    /\ last.op = "poll" /\ last.io = "command"
    /\ Len(inbox) = 1 /\ inbox[1] # last.cmd
    /\ due["sensing"] > 0 /\ due["heartbeat"] > 0

\* the body of the branch of interval s has run and returned
Handled(s) == running = "none" /\ last.op = s

\* C20: under the fairness of the select!, whenever a tick of an interval
\* waits, the body of its branch runs to its end: sensing and heartbeat too,
\* however many poll ticks wait.
C20_NoSourceStarves ==
    \A s \in Sources : (due[s] > 0) ~> Handled(s)

\* C20 witness: the heartbeat body has run with the poll interval's backlog full
C20_Witness ==
    /\ Handled("heartbeat")
    /\ due["poll"] = MaxBacklog
    /\ due["sensing"] > 0

\* the messages of one kind among those the last handler sent
SentOf(q, msg) == {k \in DOMAIN q : q[k].msg = msg}

\* C21: the loop begins with no tick of the heartbeat interval waiting and no
\* heartbeat sent; a tick of it comes to wait only in the loop, one per period
\* elapsed; and the heartbeat body starts, and a heartbeat goes out, only by
\* taking a waiting tick. So the first heartbeat follows a full period.
C21_FirstHeartbeatAfterOnePeriod ==
    [][/\ (pc = "start" /\ pc' = "loop") =>
            /\ due'["heartbeat"] = 0
            /\ SentOf(sent', "Heartbeat") = {}
       /\ due'["heartbeat"] > due["heartbeat"] =>
            /\ pc = "loop"
            /\ due'["heartbeat"] = due["heartbeat"] + 1
       /\ (running' = "heartbeat" /\ running # "heartbeat") =>
            /\ due["heartbeat"] > 0
            /\ due'["heartbeat"] = due["heartbeat"] - 1
       /\ (SentOf(sent', "Heartbeat") # {} /\ running # "none" /\ running' = "none") =>
            /\ running = "heartbeat"
            /\ Cardinality(SentOf(sent', "Heartbeat")) = 1
      ]_vars

\* C21 witness: a heartbeat has gone out, after the one tick that had elapsed
\* was taken
C21_Witness ==
    /\ Handled("heartbeat")
    /\ \E k \in DOMAIN sent : sent[k].msg = "Heartbeat" /\ sent[k].result = "ok"
    /\ due["heartbeat"] = 0

\* C22: with a client the feature report goes out in the startup step, once,
\* whether the link accepts it or not, and that step enters the loop; the
\* startup step is the first thing the node does (nothing is sent or handled
\* before it), it happens once, and no other step sends a feature report.
C22_FeatureReportOnceAtStartup ==
    [][/\ pc = "start" => (last.op = "new" /\ sent = <<>>)
       /\ (pc = "start" /\ last' # last) => last'.op = "startup"
       /\ (last'.op = "startup" /\ last.op # "startup") =>
            /\ pc = "start" /\ pc' = "loop"
            /\ has_client =>
                /\ Cardinality(SentOf(sent', "FeatureReport")) = 1
                /\ \A k \in DOMAIN sent' : sent'[k].result \in {"ok", "err"}
       /\ pc # "start" => pc' # "start"
       /\ (\E k \in DOMAIN sent' : sent'[k].msg = "FeatureReport" /\ sent'[k].result # "no_client")
            => last'.op = "startup"
       /\ (last.op = "startup" /\ last' # last) => last'.op # "startup"
      ]_vars

\* C22 witness: the link refused the feature report and the node is in its loop
C22_Witness ==
    /\ last.op = "startup" /\ has_client
    /\ sent = <<[msg |-> "FeatureReport", result |-> "err"]>>
    /\ pc = "loop"

\* C23: a sensing tick whose sensor read failed ends like a tick with no
\* sensor: the voltage taken is the reference voltage, the node goes from
\* Normal to AlertSent and sends one alert if that is under the threshold,
\* and otherwise keeps its state and sends nothing; the loop goes on.
C23_SensorFailureFallsBack ==
    (last.op = "sensing" /\ last.io \in {"err", "none"}) =>
        /\ pc = "loop"
        /\ last_voltage = voltage_ref
        /\ relays = pre.relays
        /\ IF voltage_ref < UNDERVOLTAGE_THRESHOLD /\ pre.state = Normal
           THEN /\ state = AlertSent
                /\ Len(sent) = 1 /\ sent[1].msg = "VoltageAlert"
           ELSE /\ state = pre.state
                /\ sent = <<>>

\* C23 witness: the read failed on an under-voltage tick in Normal, and the
\* alert went out
C23_Witness ==
    /\ last.op = "sensing" /\ last.io = "err" /\ has_sensor
    /\ pre.state = Normal /\ state = AlertSent
    /\ sent = <<[msg |-> "VoltageAlert", result |-> "ok"]>>

\* C24: the loop never ends: whatever failed before, the node is at its
\* start or in its loop, where a next event can always be handled.
C24_LoopNeverEnds ==
    /\ pc \in {"start", "loop"}
    /\ ENABLED Next

\* C25: a heartbeat tick leaves the relays and the node state as they were,
\* whatever the link answered; a sensing tick leaves the relays as they were
\* and the node state too, unless it takes it from Normal to AlertSent;
\* neither drives a relay; the relays differ from what they were only after a
\* dispatched command.
C25_TicksLeaveRelaysAlone ==
    /\ last.op = "heartbeat" =>
            relays = pre.relays /\ state = pre.state /\ pushed = <<>>
    /\ last.op = "sensing" =>
            /\ relays = pre.relays /\ pushed = <<>>
            /\ state = pre.state \/ (pre.state = Normal /\ state = AlertSent)
    /\ relays # pre.relays => (last.op = "poll" /\ last.io = "command")

\* C25 witness: the link refused a heartbeat while a load was closed and an
\* alert was outstanding
C25_Witness ==
    /\ last.op = "heartbeat"
    /\ sent = <<[msg |-> "Heartbeat", result |-> "err"]>>
    /\ state = AlertSent
    /\ \E i \in Indexes : relays[i].relay_type = Load /\ relays[i].is_closed

\* C26: the second of two shed_load(t) calls in a row changes no relay, leaves
\* the node state and invokes set_physical_relay not once.
C26_ShedLoadIdempotent ==
    last.op = "shed_load_twice" =>
        /\ relays = pre.relays
        /\ state = pre.state
        /\ pushed = <<>>
        /\ hw_calls = <<>>

\* C26 witness: the first call opened two loads, the second found them open
C26_Witness ==
    /\ last.op = "shed_load_twice" /\ last.threshold = Medium
    /\ Len(SelectSeq(trace, LAMBDA x : x.ev = "mutate")) = 2
    /\ pushed = <<>>
    /\ \A i \in Indexes : relays[i].relay_type = Load /\ IsOpen(i)

\* C27: under GovernmentSanctioned no handler opens a Grid relay: a Grid
\* relay that was closed when the last handler began is closed after it, and
\* no open was pushed for it.
C27_SanctionedGridNeverOpened ==
    mesh_type = GovernmentSanctioned =>
        /\ SameShape
        /\ \A i \in Indexes :
            (relays[i].relay_type = Grid /\ WasClosed(i)) =>
                /\ relays[i].is_closed
                /\ \A k \in DOMAIN pushed :
                        pushed[k].relay_id = relays[i].id => pushed[k].closed

\* C27 witness: a sanctioned node has islanded and gone on to BlackStart with
\* its Grid relay still closed and its load shed
C27_Witness ==
    /\ mesh_type = GovernmentSanctioned
    /\ Targeted("EnterBlackStart") /\ pre.state = Islanded
    /\ \E i, j \in Indexes :
        /\ relays[i].relay_type = Grid /\ relays[i].is_closed
        /\ relays[j].relay_type = Load /\ IsOpen(j)

\* C28: whatever the last handler was, the inventory has the relays it had, in
\* the order they had, each with the id, type and priority it had: is_closed
\* is the only field that may differ.
C28_InventoryShapeFixed ==
    /\ Len(relays) = Len(pre.relays)
    /\ \A i \in 1 .. Len(pre.relays) :
        /\ i \in DOMAIN relays
        /\ DOMAIN relays[i] = DOMAIN pre.relays[i]
        /\ \A f \in DOMAIN pre.relays[i] \ {"is_closed"} : relays[i][f] = pre.relays[i][f]
        /\ relays[i].is_closed \in BOOLEAN

\* C28 witness: an AdHoc EnterIsland changed is_closed of both relays of a
\* two-relay inventory, a Grid relay and a Load
C28_Witness ==
    /\ Targeted("EnterIsland") /\ mesh_type = AdHoc
    /\ Len(relays) = 2
    /\ relays[1].relay_type = Grid /\ relays[2].relay_type = Load
    /\ \A i \in Indexes : WasClosed(i) /\ IsOpen(i) /\ relays[i].id = i

\* C29: when a targeted EnterBlackStart has taken the node to BlackStart,
\* every Load relay is open.
C29_BlackStartEntersWithLoadsOpen ==
    (Targeted("EnterBlackStart") /\ state = BlackStart) =>
        \A i \in Indexes : relays[i].relay_type = Load => IsOpen(i)

\* C30: under AdHoc, while the node is Islanded or BlackStart, every Grid
\* relay is open.
C30_OffGridKeepsGridOpen ==
    (mesh_type = AdHoc /\ state \in {Islanded, BlackStart}) =>
        \A i \in Indexes : relays[i].relay_type = Grid => IsOpen(i)

\* C31: a node with no orchestrator client dispatches no command: in every
\* state it is Normal or AlertSent with nothing driven, and no step changes a
\* relay or ends in a dispatch.
C31_NoClientNoDispatch ==
    /\ [](~has_client =>
            /\ state \in {Normal, AlertSent}
            /\ pushed = <<>> /\ hw_calls = <<>>
            /\ last.io # "command"
            /\ pc \in {"start", "loop"})
    /\ [][~has_client => relays' = relays]_vars

\* C31 witness: a clientless node has polled, after its under-voltage alert,
\* with a load still closed
C31_Witness ==
    /\ ~has_client
    /\ last.op = "poll" /\ last.io = "no_client"
    /\ state = AlertSent
    /\ \E i \in Indexes : relays[i].relay_type = Load /\ relays[i].is_closed

\* C32: with a driver whose set_relay never fails and distinct pins for
\* distinct relay ids, every relay whose pin has been driven at least once has
\* the pin's last commanded value equal to its is_closed.
C32_PinsFollowInventory ==
    (relay_driver = MockRelayDriver /\ \A k \in DOMAIN hw_calls : hw_calls[k].ok) =>
        \A i \in Indexes :
            LET id == relays[i].id
            IN  (id \in DOMAIN relay_pins /\ relay_pins[id] \in DOMAIN pin_state) =>
                    pin_state[relay_pins[id]] = relays[i].is_closed

\* C32 witness: an activation by priority has closed, in the inventory and on
\* its pin, a relay that was open, next to a relay whose pin was never driven
C32_Witness ==
    /\ Targeted("ActivateRelayByPriority") /\ relay_driver = MockRelayDriver
    /\ \E i, j \in Indexes :
        /\ i # j
        /\ ~WasClosed(i) /\ relays[i].is_closed
        /\ relays[i].id \in DOMAIN relay_pins
        /\ \E k \in DOMAIN hw_calls : hw_calls[k].relay_id = relays[i].id /\ hw_calls[k].closed
        /\ pin_state[relay_pins[relays[i].id]] = TRUE
        /\ relays[j].id \in DOMAIN relay_pins
        /\ relay_pins[relays[j].id] \notin DOMAIN pin_state

\* C33: what a sensing tick does is fixed by the node state before it and the
\* reference voltage alone, whatever read_watts returned (a wattage, an error,
\* or no sensor to read): last_voltage is the reference voltage, an alert goes
\* out and the state changes exactly when the reference is under the
\* threshold in Normal. So a node is in AlertSent only with a reference
\* voltage under the threshold.
C33_ReadingIgnored ==
    LET under == voltage_ref < UNDERVOLTAGE_THRESHOLD
    IN  /\ state = AlertSent => under
        /\ last.op = "sensing" =>
            /\ last.io \in {"ok", "err", "none"} /\ last.watts \in Watts
            /\ last_voltage = voltage_ref
            /\ (AlertsSent # {}) = (under /\ pre.state = Normal)
            /\ (state # pre.state) = (under /\ pre.state = Normal)

\* C33 witness: the sensor read no power at all on a healthy reference
\* voltage, and the node stayed Normal and silent
C33_Witness ==
    /\ last.op = "sensing" /\ last.io = "ok" /\ last.watts = 0 /\ has_sensor
    /\ voltage_ref >= UNDERVOLTAGE_THRESHOLD
    /\ pre.state = Normal /\ state = Normal /\ sent = <<>>

\* C34: a sensing tick of a Normal node under an under-voltage reference takes
\* it to AlertSent with one send_voltage_alert call, whatever that call gave
\* (sent, refused, or no client to send with); a step calls
\* send_voltage_alert only when it takes the node from Normal to AlertSent,
\* and no step brings the node back to Normal: so the alert is attempted at
\* most once in a run, never again after a failure, and never by a node that
\* is Islanded or BlackStart.
C34_AlertAttemptedOnce ==
    [][ LET attempts == SentOf(sent', "VoltageAlert")
        IN  /\ (last'.op = "sensing" /\ state = Normal
                    /\ voltage_ref < UNDERVOLTAGE_THRESHOLD) =>
                    /\ state' = AlertSent
                    /\ Cardinality(attempts) = 1 /\ Len(sent') = 1
                    /\ sent'[1].result \in {"ok", "err", "no_client"}
            /\ attempts # {} => (state = Normal /\ state' = AlertSent)
            /\ state # Normal => state' # Normal
      ]_vars

\* C34 witness: the link refused the alert, and the node is in AlertSent all
\* the same
C34_Witness ==
    /\ last.op = "sensing" /\ has_client
    /\ pre.state = Normal /\ state = AlertSent
    /\ sent = <<[msg |-> "VoltageAlert", result |-> "err"]>>

\* C35: no handler opens a Source relay: one that was closed is closed after
\* it and was not driven open; one whose is_closed changed went from open to
\* closed, under an ActivateRelayByIndex or ActivateRelayByPriority command
\* addressed to the node.
C35_SourceNeverOpened ==
    \A i \in Indexes :
        (i \in DOMAIN pre.relays /\ TypeOf(i) = Source) =>
            /\ relays[i].relay_type = Source
            /\ WasClosed(i) => relays[i].is_closed
            /\ \A k \in DOMAIN pushed : pushed[k].relay_id = relays[i].id => pushed[k].closed
            /\ relays[i].is_closed # WasClosed(i) =>
                    Targeted("ActivateRelayByIndex") \/ Targeted("ActivateRelayByPriority")

\* C35 witness: an AdHoc node has islanded and opened a closed relay that is
\* not a Source, while its closed Source relay is closed still and undriven
C35_Witness ==
    /\ Targeted("EnterIsland") /\ mesh_type = AdHoc
    /\ \E i, j \in Indexes :
        /\ TypeOf(i) = Source /\ WasClosed(i) /\ relays[i].is_closed /\ PushesFor(i) = <<>>
        /\ TypeOf(j) # Source /\ WasClosed(j) /\ IsOpen(j)

====
